---- MODULE Spec2Model ----
(***************************************************************************)
(* Model of src/createAuthScheme.js: the token authorizer scheme of        *)
(* serverless-offline.  One evaluator (the object returned by the scheme   *)
(* factory) serves a sequence of requests; each request runs authenticate, *)
(* the user function completes through lambdaContext.done, and deferred    *)
(* results settle later.                                                   *)
(***************************************************************************)
EXTENDS Integers, Sequences, FiniteSets, TLC

\* ------------------------------------------------------------------------
\* Bounds
\* ------------------------------------------------------------------------
\* requests served by the evaluator in the multi-request universe
MaxRequests == 3
\* invocations of the completion callback over all requests (a misbehaving
\* function may call back more than once for one request)
MaxCompletions == 2
\* own keys of a policy context in the policy universe
MaxCtx == 2
\* scheme objects made in one process in the process universe
MaxEvaluators == 2

\* ------------------------------------------------------------------------
\* JavaScript values.  A string is a sequence of one-character strings.
\* ------------------------------------------------------------------------
DQ == "\""
BS == "\\"

Undefined == [t |-> "undefined"]
Null == [t |-> "null"]
Str(s) == [t |-> "string", s |-> s]
Num(n) == [t |-> "number", n |-> n]
Bool(b) == [t |-> "boolean", b |-> b]
\* a plain object without own enumerable properties: {}
Obj == [t |-> "object"]
Fun == [t |-> "function"]
\* new Error(tag)
Err(tag) == [t |-> "error", tag |-> tag]
\* an object context: own keys in enumeration order
Ctx(kv) == [t |-> "map", kv |-> kv]
\* { principalId: p, context: c }; Undefined stands for a missing property
Policy(p, c) == [t |-> "policy", principalId |-> p, context |-> c]
\* a promise (has then and catch) that settles as how \in {"resolve","reject"}
Promise(how, v) == [t |-> "promise", how |-> how, v |-> v]

\* the typeof operator
typeof(v) ==
    IF v.t \in {"null", "error", "map", "policy", "promise"} THEN "object"
    ELSE v.t

\* ToBoolean, as used by if (...) and !
Truthy(v) ==
    CASE v.t \in {"undefined", "null"} -> FALSE
      [] v.t = "string" -> v.s # <<>>
      [] v.t = "number" -> v.n # 0
      [] v.t = "boolean" -> v.b
      [] OTHER -> TRUE

\* the exception raised by a property read on null or undefined
TypeError == [t |-> "TypeError"]

\* property read value.prop; TypeError when value is null or undefined
GetProp(v, prop) ==
    CASE v.t \in {"undefined", "null"} -> TypeError
      [] v.t = "policy" /\ prop = "principalId" -> v.principalId
      [] v.t = "policy" /\ prop = "context" -> v.context
      [] OTHER -> Undefined

\* ------------------------------------------------------------------------
\* JSON.stringify
\* ------------------------------------------------------------------------
RECURSIVE QuoteChars(_)
QuoteChars(s) ==
    IF s = <<>> THEN <<>>
    ELSE (IF Head(s) = DQ THEN <<BS, DQ>>
          ELSE IF Head(s) = BS THEN <<BS, BS>>
          ELSE <<Head(s)>>) \o QuoteChars(Tail(s))

Quote(s) == <<DQ>> \o QuoteChars(s) \o <<DQ>>

Digit(d) == <<"0", "1", "2", "3", "4", "5", "6", "7", "8", "9">>[d + 1]

RECURSIVE NumberToString(_)
NumberToString(n) ==
    IF n < 10 THEN <<Digit(n)>>
    ELSE NumberToString(n \div 10) \o <<Digit(n % 10)>>

\* values JSON.stringify leaves out of an object
Omitted(v) == v.t \in {"undefined", "function"}

\* serialization of a value that is not a container with members
SerializeLeaf(v) ==
    CASE v.t = "string" -> Quote(v.s)
      [] v.t = "number" -> NumberToString(v.n)
      [] v.t = "boolean" -> IF v.b THEN <<"t", "r", "u", "e">>
                            ELSE <<"f", "a", "l", "s", "e">>
      [] v.t = "null" -> <<"n", "u", "l", "l">>
      [] OTHER -> <<"{", "}">>

Member(k, json) == Quote(k) \o <<":">> \o json

RECURSIVE JoinMembers(_)
JoinMembers(ms) ==
    IF ms = <<>> THEN <<>>
    ELSE IF Len(ms) = 1 THEN Head(ms)
    ELSE Head(ms) \o <<",">> \o JoinMembers(Tail(ms))

RECURSIVE CtxMembers(_)
CtxMembers(kv) ==
    IF kv = <<>> THEN <<>>
    ELSE (IF Omitted(Head(kv).v) THEN <<>>
          ELSE <<Member(Head(kv).k, SerializeLeaf(Head(kv).v))>>)
         \o CtxMembers(Tail(kv))

SerializeCtx(c) ==
    IF c.t = "map" THEN <<"{">> \o JoinMembers(CtxMembers(c.kv)) \o <<"}">>
    ELSE SerializeLeaf(c)

PrincipalIdKey == <<"p", "r", "i", "n", "c", "i", "p", "a", "l", "I", "d">>
ContextKey == <<"c", "o", "n", "t", "e", "x", "t">>

PolicyMembers(p) ==
    (IF Omitted(p.principalId) THEN <<>>
     ELSE <<Member(PrincipalIdKey, SerializeLeaf(p.principalId))>>)
    \o (IF Omitted(p.context) THEN <<>>
        ELSE <<Member(ContextKey, SerializeCtx(p.context))>>)

\* JSON.stringify(policy): a string, or Undefined for an undefined argument
JSONstringify(v) ==
    CASE v.t \in {"undefined", "function"} -> Undefined
      [] v.t = "policy" ->
            Str(<<"{">> \o JoinMembers(PolicyMembers(v)) \o <<"}">>)
      [] v.t = "map" -> Str(SerializeCtx(v))
      [] OTHER -> Str(SerializeLeaf(v))

\* s.indexOf('\\"'): 0-based position of the first backslash followed by a
\* double quote, -1 when there is none
indexOfEscapedQuote(s) ==
    LET hits == {i \in 1..(Len(s) - 1) : s[i] = BS /\ s[i + 1] = DQ}
    IN IF hits = {} THEN -1
       ELSE (CHOOSE i \in hits : \A j \in hits : i <= j) - 1

\* ------------------------------------------------------------------------
\* Collaborators' values: log lines, Boom errors, the reply interface
\* ------------------------------------------------------------------------
authFunName == "authFun"

\* a literal piece of a message
Lit(x) == [t |-> "lit", text |-> x]

\* one step of a request's execution, in program order; by = 0 for
\* authenticate itself, i > 0 for the i-th invocation of the callback
Step(op, arg, by) == [op |-> op, arg |-> arg, by |-> by]

\* serverlessLog(message, detail)
serverlessLog(msg, detail, by) ==
    Step("serverlessLog", [message |-> msg, detail |-> detail], by)

BoomUnauthorized(msg) == [kind |-> "unauthorized", message |-> msg]
BoomForbidden(msg) == [kind |-> "forbidden", message |-> msg]
BoomBadImplementation(msg) == [kind |-> "internal", message |-> msg]
\* Boom.badImplementation(message, data)
BoomBadImplementationData(msg, data) ==
    [kind |-> "internal", message |-> msg, data |-> data]

reply(boom, by) == Step("reply", boom, by)
replyContinue(data, by) ==
    Step("reply.continue", [kind |-> "continue", data |-> data], by)
\* an exception leaving the code of this module
throw(e, by) == Step("throw", e, by)

\* ------------------------------------------------------------------------
\* The completion callback (createAuthScheme.js 77-145)
\* ------------------------------------------------------------------------
onError_leaksCause(error, by) ==
    << serverlessLog(<<Lit("Authorization function returned an error response: "),
                       Lit(authFunName)>>, error, by),
       reply(BoomUnauthorized(<<Lit("Unauthorized"), error>>), by) >>

\* onError: log, then reply unauthorized with the generic message
onError(error, by) ==
    << serverlessLog(<<Lit("Authorization function returned an error response: "),
                       Lit(authFunName)>>, error, by),
       reply(BoomUnauthorized(<<Lit("Unauthorized")>>), by) >>

allowedTypes == {"number", "string", "boolean"}

\* own enumerable keys of policy.context, in enumeration order
OwnEntries(c) == IF c.t = "map" THEN c.kv ELSE <<>>

\* index of the first own key whose value has a type that is not allowed,
\* 0 when every value is allowed
FirstInvalidKey(kv) ==
    LET bad == {i \in 1..Len(kv) : typeof(kv[i].v) \notin allowedTypes}
    IN IF bad = {} THEN 0 ELSE CHOOSE i \in bad : \A j \in bad : i <= j

continueData_noContext(principalId, context) ==
    [credentials |-> [user |-> principalId]]

\* continueData: credentials with the user, and the context when the policy
\* has a truthy one
continueData(principalId, context) ==
    [credentials |->
        IF Truthy(context)
        THEN [user |-> principalId, context |-> context]
        ELSE [user |-> principalId]]

NotAllowedContextKeyMessage(keyType) ==
    <<Lit("Not allowed context key ${keyType}")>>

\* onSuccess: the steps taken for a policy; the last step is a reply, a
\* reply.continue or a throw
onSuccess(policy, err, by) ==
    LET jsonPolicy == JSONstringify(policy)
        invalidSymbolPosition == indexOfEscapedQuote(jsonPolicy.s)
        principalId == GetProp(policy, "principalId")
        context == GetProp(policy, "context")
        bad == FirstInvalidKey(OwnEntries(context))
        keyType == typeof(OwnEntries(context)[bad].v)
    IN
    IF jsonPolicy.t # "string" THEN
        \* jsonPolicy.indexOf on undefined
        << throw(TypeError, by) >>
    ELSE IF invalidSymbolPosition # -1 THEN
        << serverlessLog(<<Lit("Invalid auth data at position "),
                           Num(invalidSymbolPosition), Lit(authFunName)>>, err, by),
           reply(BoomBadImplementation(
                    <<Lit("Invalid auth data at position "),
                      Num(invalidSymbolPosition), Lit(". Data: "), jsonPolicy>>), by) >>
    ELSE IF principalId = TypeError THEN
        << throw(TypeError, by) >>
    ELSE IF ~Truthy(principalId) THEN
        << serverlessLog(<<Lit("Authorization response did not include a principalId: "),
                           Lit(authFunName)>>, err, by),
           reply(BoomForbidden(<<Lit("No principalId set on the Response")>>), by) >>
    ELSE IF typeof(principalId) # "string" THEN
        << serverlessLog(<<Lit("Authorization response error: principalId can be only a String: "),
                           Lit(authFunName)>>, err, by),
           reply(BoomBadImplementation(<<Lit("principalId is not a string")>>), by) >>
    ELSE IF Truthy(context) /\ bad # 0 THEN
        << serverlessLog(<<Lit("Context key "), Str(OwnEntries(context)[bad].k),
                           Lit(" has type "), Lit(keyType), Lit(authFunName)>>, err, by),
           reply(BoomBadImplementation(NotAllowedContextKeyMessage(keyType)), by) >>
    ELSE
        << serverlessLog(<<Lit("Authorization function returned a successful response: "),
                           Lit(authFunName)>>, policy, by),
           replyContinue(continueData(principalId, context), by) >>

IsPromiseLike(result) == Truthy(result) /\ result.t = "promise"
InstanceofError(result) == result.t = "error"

Last(s) == s[Len(s)]
Throws(steps) == steps # <<>> /\ Last(steps).op = "throw"

\* the continuations of result.then(onSuccess).catch(onError) once the
\* promise settles: a throw inside onSuccess is a rejection handled by
\* onError
settled(promise, err, by) ==
    IF promise.how = "resolve" THEN
        LET steps == onSuccess(promise.v, err, by)
        IN IF Throws(steps)
           THEN SubSeq(steps, 1, Len(steps) - 1) \o onError(Last(steps).arg, by)
           ELSE steps
    ELSE onError(promise.v, by)

callback_noErrorResultCheck(err, result, by) ==
    IF Truthy(err) THEN onError(err, by)
    ELSE IF IsPromiseLike(result) THEN <<Step("then.catch", result, by)>>
    ELSE onSuccess(result, err, by)

\* the synchronous part of the callback; a promise-like result only has its
\* continuations attached
callback(err, result, by) ==
    IF Truthy(err) THEN onError(err, by)
    ELSE IF IsPromiseLike(result) THEN <<Step("then.catch", result, by)>>
    ELSE IF InstanceofError(result) THEN onError(result, by)
    ELSE onSuccess(result, err, by)

\* ------------------------------------------------------------------------
\* Construction: createAuthScheme (createAuthScheme.js 11-38)
\* ------------------------------------------------------------------------
Upper == << "A", "B", "C", "D", "E", "F", "G", "H", "I", "J", "K", "L", "M",
            "N", "O", "P", "Q", "R", "S", "T", "U", "V", "W", "X", "Y", "Z" >>
Lower == << "a", "b", "c", "d", "e", "f", "g", "h", "i", "j", "k", "l", "m",
            "n", "o", "p", "q", "r", "s", "t", "u", "v", "w", "x", "y", "z" >>
Range(f) == {f[i] : i \in DOMAIN f}

\* the characters \w matches
WordChars ==
    Range(Upper) \cup Range(Lower) \cup {Digit(d) : d \in 0..9} \cup {"_"}

\* String.prototype.toLowerCase
toLowerCase(s) ==
    [i \in 1..Len(s) |->
        IF \E j \in 1..26 : Upper[j] = s[i]
        THEN Lower[CHOOSE j \in 1..26 : Upper[j] = s[i]]
        ELSE s[i]]

sMethod == <<"m", "e", "t", "h", "o", "d">>
sRequest == <<"r", "e", "q", "u", "e", "s", "t">>
sHeader == <<"h", "e", "a", "d", "e", "r">>
sTOKEN == <<"T", "O", "K", "E", "N">>

\* the string a value is converted to when given to RegExp.prototype.exec
StringOf(v) ==
    IF v.t = "string" THEN v.s
    ELSE <<"u", "n", "d", "e", "f", "i", "n", "e", "d">>

\* what the unescaped . of the pattern matches: any character but a line end
MatchesDot(c) == c # "\n"

\* /^method.request.header.(\w+)$/.exec(identitySource): the captured group
\* in a one-element sequence, <<>> for no match
identitySourceExec(identitySource) ==
    LET s == StringOf(identitySource)
    IN IF /\ Len(s) >= 23
          /\ SubSeq(s, 1, 6) = sMethod
          /\ MatchesDot(s[7])
          /\ SubSeq(s, 8, 14) = sRequest
          /\ MatchesDot(s[15])
          /\ SubSeq(s, 16, 21) = sHeader
          /\ MatchesDot(s[22])
          /\ \A i \in 23..Len(s) : s[i] \in WordChars
       THEN << SubSeq(s, 23, Len(s)) >>
       ELSE <<>>

\* new Error(message)
ErrorOf(msg) == [t |-> "error", message |-> msg]

TypeMessage == <<Lit("Authorizer Type must be TOKEN "), Lit(authFunName)>>
IdentitySourceMessage ==
    << Lit("Serverless Offline only supports retrieving tokens from the headers "),
       Lit(authFunName) >>

\* the outcome of a construction: the steps taken, and the closure of the
\* scheme when one is returned
Built(steps, ok, header) == [steps |-> steps, ok |-> ok, identityHeader |-> header]

createAuthScheme_sourceFirst(config) ==
    LET populated == << Step("toObjectPopulated", config.populates, 0) >>
        match == identitySourceExec(config.identitySource)
        exec == << Step("identitySource.exec", config.identitySource, 0) >>
    IN IF ~config.populates THEN
           Built(populated \o << Step("debugLog", authFunName, 0),
                                 throw(Err("populate"), 0) >>, FALSE, <<>>)
       ELSE IF match = <<>> THEN
           Built(populated \o exec
                 \o << throw(ErrorOf(IdentitySourceMessage), 0) >>, FALSE, <<>>)
       ELSE IF config.type # Str(sTOKEN) THEN
           Built(populated \o exec \o << throw(ErrorOf(TypeMessage), 0) >>, FALSE, <<>>)
       ELSE
           Built(populated \o exec
                 \o << Step("getFunctionOptions", authFunName, 0) >>,
                 TRUE, toLowerCase(match[1]))

createAuthScheme_noLowerCase(config) ==
    LET populated == << Step("toObjectPopulated", config.populates, 0) >>
        match == identitySourceExec(config.identitySource)
        exec == << Step("identitySource.exec", config.identitySource, 0) >>
    IN IF ~config.populates THEN
           Built(populated \o << Step("debugLog", authFunName, 0),
                                 throw(Err("populate"), 0) >>, FALSE, <<>>)
       ELSE IF config.type # Str(sTOKEN) THEN
           Built(populated \o << throw(ErrorOf(TypeMessage), 0) >>, FALSE, <<>>)
       ELSE IF match = <<>> THEN
           Built(populated \o exec
                 \o << throw(ErrorOf(IdentitySourceMessage), 0) >>, FALSE, <<>>)
       ELSE
           Built(populated \o exec
                 \o << Step("getFunctionOptions", authFunName, 0) >>,
                 TRUE, match[1])

\* createAuthScheme(authFun, ...): populate, check the authorizer type, parse
\* the identity source, lower-case the header name
createAuthScheme(config) ==
    LET populated == << Step("toObjectPopulated", config.populates, 0) >>
        match == identitySourceExec(config.identitySource)
        exec == << Step("identitySource.exec", config.identitySource, 0) >>
    IN IF ~config.populates THEN
           Built(populated \o << Step("debugLog", authFunName, 0),
                                 throw(Err("populate"), 0) >>, FALSE, <<>>)
       ELSE IF config.type # Str(sTOKEN) THEN
           Built(populated \o << throw(ErrorOf(TypeMessage), 0) >>, FALSE, <<>>)
       ELSE IF match = <<>> THEN
           Built(populated \o exec
                 \o << throw(ErrorOf(IdentitySourceMessage), 0) >>, FALSE, <<>>)
       ELSE
           Built(populated \o exec
                 \o << Step("getFunctionOptions", authFunName, 0) >>,
                 TRUE, toLowerCase(match[1]))

\* the process environment before the first invocation
BaselineEnv == {"PATH"}

\* ------------------------------------------------------------------------
\* What the environment can do: requests and user function behaviours.
\* Five universes, each with one valid configuration unless said otherwise:
\*   "flow"    several requests, repeated completions, a few result shapes;
\*   "policy"  one request, one completion, every policy up to MaxCtx keys;
\*   "config"  one construction from every configuration, one request;
\*   "process" up to MaxEvaluators evaluators with their own environments;
\*   "logger"  one request, repeated completions, and calls of
\*             serverlessLog may throw.
\* ------------------------------------------------------------------------
Universes == {"flow", "policy", "config", "process", "logger"}

abc123 == Str(<<"a", "b", "c", "1", "2", "3">>)
user1 == Str(<<"u", "s", "e", "r", "1">>)

\* principalId values: missing, falsy string, falsy number, number, string,
\* string with a double quote, string ending in a backslash
PrincipalIds ==
    { Undefined, Str(<<>>), Num(0), Num(42), user1,
      Str(<<"a", DQ, "b">>), Str(<<"a", BS>>) }

\* context values: the three allowed types and disallowed ones
ContextValues ==
    { Str(<<"a", "d", "m", "i", "n">>), Num(3), Bool(TRUE),
      Obj, Undefined, Str(<<"x", DQ>>) }

ContextKeyName(i) == <<"k", Digit(i)>>

\* contexts with n own keys k1..kn
ContextsOfSize(n) ==
    { Ctx([i \in 1..n |-> [k |-> ContextKeyName(i), v |-> f[i]]]) :
        f \in [1..n -> ContextValues] }

Contexts ==
    {Undefined, Null} \cup UNION {ContextsOfSize(n) : n \in 0..MaxCtx}

Policies == {Policy(p, c) : p \in PrincipalIds, c \in Contexts}

okPolicy == Policy(user1, Undefined)

\* values a completion can carry that are not promise-like
PlainResults == Policies \cup {Null, Undefined, Err("E1"), Err("E2")}

PolicyResults ==
    PlainResults
    \cup {Promise("resolve", v) : v \in PlainResults}
    \cup {Promise("reject", Err("E2"))}

\* the error argument: unset (null, undefined), an Error, a string, and the
\* non-null falsy values
PolicyErrors ==
    {Null, Undefined, Err("E1"), Str(<<"n", "o">>), Str(<<>>), Num(0), Bool(FALSE)}

Completion(err, result) == [err |-> err, result |-> result]

PolicyCompletions == {Completion(e, v) : e \in PolicyErrors, v \in PolicyResults}

FlowCompletions ==
    { Completion(Null, okPolicy),
      Completion(Err("E1"), okPolicy),
      Completion(Null, Null),
      Completion(Null, Promise("resolve", okPolicy)),
      Completion(Null, Promise("reject", Err("E2"))) }

ProcessCompletions ==
    { Completion(Null, okPolicy),
      Completion(Null, Promise("reject", Err("E2"))) }

\* the (err, result) pairs the user function may pass to the callback
Completions(u) ==
    CASE u = "policy" -> PolicyCompletions
      [] u = "process" -> ProcessCompletions
      [] OTHER -> FlowCompletions

sAuthorization ==
    <<"A", "u", "t", "h", "o", "r", "i", "z", "a", "t", "i", "o", "n">>
sDot == <<".">>

IdentitySourceOf(sep1, sep2, sep3, name) ==
    Str(sMethod \o sep1 \o sRequest \o sep2 \o sHeader \o sep3 \o name)

Config(populates, type, identitySource, environment) ==
    [ populates |-> populates, type |-> type,
      identitySource |-> identitySource, environment |-> environment ]

validConfig ==
    Config(TRUE, Str(sTOKEN), IdentitySourceOf(sDot, sDot, sDot, sAuthorization),
           {"AUTH_SECRET"})

\* authorizer types: the supported one and others
AuthorizerTypes ==
    { Str(sTOKEN), Str(<<"R", "E", "Q", "U", "E", "S", "T">>),
      Str(toLowerCase(sTOKEN)), Undefined }

\* characters found where the grammar has a dot
Separators == { sDot, <<"X">>, <<"/">> }

\* header names: mixed case, upper case, with an underscore, with a hyphen,
\* a list, empty
HeaderNames ==
    { sAuthorization, <<"A", "U", "T", "H">>, <<"x", "_", "k", "e", "y">>,
      <<"X", "-", "K", "e", "y">>, <<"a", ",", "b">>, <<>> }

IdentitySources ==
    { IdentitySourceOf(a, b, c, n) : a \in Separators, b \in Separators,
                                     c \in Separators, n \in HeaderNames }
    \cup { Undefined,
           Str(sMethod \o sDot \o sRequest \o sDot
               \o <<"q", "u", "e", "r", "y">> \o sDot \o <<"t">>),
           Str(<<" ">> \o sMethod \o sDot \o sRequest \o sDot \o sHeader
               \o sDot \o sAuthorization) }

AllConfigs ==
    { Config(p, t, i, {"AUTH_SECRET"}) :
        p \in BOOLEAN, t \in AuthorizerTypes, i \in IdentitySources }

\* the declared environments of the authorizers of one process
ProcessConfigs ==
    { Config(TRUE, Str(sTOKEN), IdentitySourceOf(sDot, sDot, sDot, sAuthorization), env) :
        env \in { {"AUTH_SECRET"}, {"OTHER_SECRET"} } }

Configs(u) ==
    CASE u = "config" -> AllConfigs
      [] u = "process" -> ProcessConfigs
      [] OTHER -> {validConfig}

SchemeLimit(u) == IF u = "process" THEN MaxEvaluators ELSE 1
RequestLimit(u) ==
    CASE u \in {"policy", "config", "logger"} -> 1
      [] u = "process" -> MaxEvaluators
      [] OTHER -> MaxRequests
CompletionLimit(u) ==
    IF u \in {"policy", "config", "process"} THEN 1 ELSE MaxCompletions

\* the header map of a request; node stores header names in lower case
Header(name, value) == [n \in {name} |-> value]

RequestHeaders(u) ==
    IF u \in {"policy", "config"}
    THEN { Header(toLowerCase(sAuthorization), abc123),
           Header(<<"a", "u", "t", "h">>, user1),
           Header(<<"a", "c", "c", "e", "p", "t">>, abc123) }
    ELSE { Header(toLowerCase(sAuthorization), abc123) }

\* how many of the first calls of serverlessLog in one step throw
LogFaults(u) == IF u = "logger" THEN {0, 1, 2} ELSE {0}

\* ------------------------------------------------------------------------
\* State
\* ------------------------------------------------------------------------
VARIABLES
    universe,    \* which behaviours the environment draws from
    schemes,     \* the calls of createAuthScheme and what they returned
    requests,    \* the requests given to authenticate, in arrival order
    envVars,     \* this.envVars of each scheme object
    processEnv   \* names set in process.env

vars == <<universe, schemes, requests, envVars, processEnv>>

\* the closure of evaluator e
identityHeader(e) == schemes[e].identityHeader
\* toPlainOrEmptyObject(populatedAuthFun.environment): the declared names
newEnvVars(e) == schemes[e].config.environment

\* req.headers[identityHeader]
HeaderValue(headers, name) ==
    IF name \in DOMAIN headers THEN headers[name] ELSE Undefined

region == "us-east-1"
stage == "dev"
funName == "hello"
endpointPath == "items/{id}"

\* the ARN of the function access is asked for
methodArn ==
    << Lit("arn:aws:execute-api:"), Lit(region), Lit(":<Account id>:<API id>/"),
       Lit(stage), Lit("/"), Lit(funName), Lit("/"), Lit(endpointPath) >>

\* resetEnvVariables(oldEnvVars, newEnvVars): remove what the previous
\* invocation applied, then apply the new set
resetEnvVariables(env, oldEnvVars, new) ==
    (env \ (IF oldEnvVars = Undefined THEN {} ELSE oldEnvVars.names)) \cup new

\* the done callback of the context made by createLambdaContext(authFun, cb)
\* is cb itself
lambdaContextDone(err, result, by) == callback(err, result, by)

InitIn(u) ==
    /\ universe = u
    /\ schemes = <<>>
    /\ requests = <<>>
    /\ envVars = <<>>
    /\ processEnv = BaselineEnv

Init == InitIn("flow")
InitPolicy == InitIn("policy")
InitConfig == InitIn("config")
InitProcess == InitIn("process")
InitLogger == InitIn("logger")

\* a call of createAuthScheme; a scheme object starts without envVars
construct ==
    /\ Len(schemes) < SchemeLimit(universe)
    /\ \E config \in Configs(universe) :
         schemes' = Append(schemes,
                      [ config |-> config,
                        steps |-> createAuthScheme(config).steps,
                        ok |-> createAuthScheme(config).ok,
                        identityHeader |-> createAuthScheme(config).identityHeader ])
    /\ envVars' = Append(envVars, Undefined)
    /\ UNCHANGED <<universe, requests, processEnv>>

Has(r, op) == \E i \in 1..Len(requests[r].trace) : requests[r].trace[i].op = op

\* `Error while loading ${authFunName}`
loadMessage == <<Lit("Error while loading "), Lit(authFunName)>>

\* authenticate after the environment reset: the try/catch around
\* createHandler, createLambdaContext and the call of the handler
dispatchSteps_noReturn(created, returns, event) ==
    (IF ~created
     THEN << reply(BoomBadImplementationData(<<Err("createHandler")>>, loadMessage), 0) >>
     ELSE <<>>)
    \o << Step("createLambdaContext", authFunName, 0),
          Step("handler", event, 0) >>
    \o (IF returns THEN <<>> ELSE <<throw(Err("thrown"), 0)>>)

dispatchSteps_failureSticks(created, returns, event) ==
    IF ~created \/ \E q \in 1..Len(requests) : ~requests[q].created
    THEN << reply(BoomBadImplementationData(<<Err("createHandler")>>, loadMessage), 0) >>
    ELSE << Step("createLambdaContext", authFunName, 0),
            Step("handler", event, 0) >>
         \o (IF returns THEN <<>> ELSE <<throw(Err("thrown"), 0)>>)

dispatchSteps_onceOnly(created, returns, event) ==
    IF ~created \/ requests # <<>>
    THEN << reply(BoomBadImplementationData(<<Err("createHandler")>>, loadMessage), 0) >>
    ELSE << Step("createLambdaContext", authFunName, 0),
            Step("handler", event, 0) >>
         \o (IF returns THEN <<>> ELSE <<throw(Err("thrown"), 0)>>)

dispatchSteps(created, returns, event) ==
    IF ~created
    THEN << reply(BoomBadImplementationData(<<Err("createHandler")>>, loadMessage), 0) >>
    ELSE << Step("createLambdaContext", authFunName, 0),
            Step("handler", event, 0) >>
         \o (IF returns THEN <<>> ELSE <<throw(Err("thrown"), 0)>>)

\* the exception of a logging collaborator that throws
LoggerError == Err("serverlessLog")

RunningMessage == <<Lit("Running Authorization function for "), Lit(authFunName)>>

authenticateSteps_resetLate(event, oldEnvVars, new, created, returns) ==
    << serverlessLog(RunningMessage, Undefined, 0),
       Step("createHandler", created, 0) >>
    \o dispatchSteps(created, returns, event)
    \o << Step("resetEnvVariables", [oldEnvVars |-> oldEnvVars, newEnvVars |-> new], 0) >>

\* the statements of authenticate in program order: log, reset of the
\* environment, createHandler, and the dispatch
authenticateSteps(event, oldEnvVars, new, created, returns) ==
    << serverlessLog(RunningMessage, Undefined, 0),
       Step("resetEnvVariables", [oldEnvVars |-> oldEnvVars, newEnvVars |-> new], 0),
       Step("createHandler", created, 0) >>
    \o dispatchSteps(created, returns, event)

\* authenticate(request, reply) of evaluator e, up to and including the
\* synchronous call of the handler.  created: whether
\* functionHelper.createHandler returns a handler; returns: whether the user
\* function returns from its synchronous part; fault: whether the first
\* call of serverlessLog throws, which ends authenticate at line 45.
authenticate(e, headers, created, returns, fault) ==
    /\ Len(requests) < RequestLimit(universe)
    /\ schemes[e].ok
    /\ fault = 1 => created /\ returns
    /\ LET event == [ type |-> "TOKEN",
                      authorizationToken |-> HeaderValue(headers, identityHeader(e)),
                      methodArn |-> methodArn ]
       IN requests' = Append(requests,
                        [ scheme |-> e,
                          headers |-> headers,
                          event |-> event,
                          created |-> created,
                          userThrows |-> fault = 0 /\ created /\ ~returns,
                          dones |-> <<>>,
                          pending |-> {},
                          trace |->
                             IF fault = 1
                             THEN << serverlessLog(RunningMessage, Undefined, 0),
                                     throw(LoggerError, 0) >>
                             ELSE authenticateSteps(event, envVars[e], newEnvVars(e),
                                                    created, returns) ])
    /\ processEnv' = IF fault = 1 THEN processEnv
                     ELSE resetEnvVariables(processEnv, envVars[e], newEnvVars(e))
    /\ envVars' = IF fault = 1 THEN envVars
                  ELSE [envVars EXCEPT ![e] = [names |-> newEnvVars(e)]]
    /\ UNCHANGED <<universe, schemes>>

Dispatched(r) == Has(r, "handler")
\* the user function threw out of its synchronous part
HandlerThrew(r) ==
    \E i \in 1..Len(requests[r].trace) :
        requests[r].trace[i].op = "throw" /\ requests[r].trace[i].by = 0

RECURSIVE CompletionCount(_)
CompletionCount(n) ==
    IF n = 0 THEN 0 ELSE Len(requests[n].dones) + CompletionCount(n - 1)

\* position of the first call of serverlessLog in steps, 0 when there is none
FirstLog(steps) ==
    IF \E j \in 1..Len(steps) : steps[j].op = "serverlessLog"
    THEN CHOOSE j \in 1..Len(steps) :
            /\ steps[j].op = "serverlessLog"
            /\ \A k \in 1..(j - 1) : steps[k].op # "serverlessLog"
    ELSE 0

\* steps when its first call of serverlessLog throws: nothing after the
\* call is executed
CutAtLog(steps, by) ==
    IF FirstLog(steps) = 0 THEN steps
    ELSE SubSeq(steps, 1, FirstLog(steps)) \o << throw(LoggerError, by) >>

\* the continuations of a settling promise when the first faults calls of
\* serverlessLog throw: a throw inside onSuccess reaches onError through
\* catch, a throw inside onError is an unhandled rejection
settledFaulty(promise, err, by, faults) ==
    IF faults = 0 THEN settled(promise, err, by)
    ELSE IF promise.how = "resolve" THEN
        LET steps == CutAtLog(onSuccess(promise.v, err, by), by)
            left == IF FirstLog(steps) = 0 THEN faults ELSE faults - 1
            caught == onError(Last(steps).arg, by)
        IN IF Throws(steps)
           THEN SubSeq(steps, 1, Len(steps) - 1)
                \o (IF left > 0 THEN CutAtLog(caught, by) ELSE caught)
           ELSE steps
    ELSE CutAtLog(onError(promise.v, by), by)

done_sharedReply(r) ==
    /\ Dispatched(r)
    /\ ~HandlerThrew(r)
    /\ CompletionCount(Len(requests)) < CompletionLimit(universe)
    /\ \E c \in Completions(universe), fault \in LogFaults(universe) \ {2} :
         LET by == Len(requests[r].dones) + 1
             steps == IF fault = 0 THEN lambdaContextDone(c.err, c.result, by)
                      ELSE CutAtLog(lambdaContextDone(c.err, c.result, by), by)
             last == Len(requests)
         IN requests' = [ [requests EXCEPT
               ![r].dones = Append(@, c),
               ![r].pending = IF Last(steps).op = "then.catch" THEN @ \cup {by} ELSE @]
               EXCEPT ![last].trace = @ \o steps ]
    /\ UNCHANGED <<universe, schemes, envVars, processEnv>>

\* the user function calls lambdaContext.done(err, result)
done(r) ==
    /\ Dispatched(r)
    /\ ~HandlerThrew(r)
    /\ CompletionCount(Len(requests)) < CompletionLimit(universe)
    /\ \E c \in Completions(universe), fault \in LogFaults(universe) \ {2} :
         LET by == Len(requests[r].dones) + 1
             steps == IF fault = 0 THEN lambdaContextDone(c.err, c.result, by)
                      ELSE CutAtLog(lambdaContextDone(c.err, c.result, by), by)
         IN requests' = [requests EXCEPT
               ![r].dones = Append(@, c),
               ![r].pending = IF Last(steps).op = "then.catch" THEN @ \cup {by} ELSE @,
               ![r].trace = @ \o steps]
    /\ UNCHANGED <<universe, schemes, envVars, processEnv>>

\* the promise passed by the i-th completion settles
settle(r, i) ==
    /\ i \in requests[r].pending
    /\ \E faults \in LogFaults(universe) :
         requests' = [requests EXCEPT
             ![r].pending = @ \ {i},
             ![r].trace = @ \o settledFaulty(requests[r].dones[i].result,
                                             requests[r].dones[i].err, i, faults)]
    /\ UNCHANGED <<universe, schemes, envVars, processEnv>>

Next ==
    \/ construct
    \/ \E e \in 1..Len(schemes) :
         \E h \in RequestHeaders(universe), created \in BOOLEAN, returns \in BOOLEAN,
            fault \in LogFaults(universe) \ {2} :
              authenticate(e, h, created, returns, fault)
    \/ \E r \in 1..Len(requests) : done(r)
    \/ \E r \in 1..Len(requests) : \E i \in requests[r].pending : settle(r, i)

Spec == Init /\ [][Next]_vars
SpecPolicy == InitPolicy /\ [][Next]_vars
SpecConfig == InitConfig /\ [][Next]_vars
SpecProcess == InitProcess /\ [][Next]_vars
SpecLogger == InitLogger /\ [][Next]_vars

\* ------------------------------------------------------------------------
\* Observations on a request
\* ------------------------------------------------------------------------
Reqs == 1..Len(requests)
Trace(r) == requests[r].trace
Dones(r) == requests[r].dones
IsReply(s) == s.op \in {"reply", "reply.continue"}
ByStep(i, s) == s.by = i
\* the steps taken by authenticate (i = 0) or by the i-th completion
StepsBy(r, i) == SelectSeq(Trace(r), LAMBDA s : ByStep(i, s))
Replies(r) == SelectSeq(Trace(r), IsReply)
RepliesBy(r, i) == SelectSeq(StepsBy(r, i), IsReply)
Kinds(steps) == [j \in 1..Len(steps) |-> steps[j].arg.kind]
Uncaught(r) == Has(r, "throw")
\* null or undefined
Unset(v) == v.t \in {"undefined", "null"}
\* the i-th completion has run to its end: a deferred result has settled
Finished(r, i) == i \in 1..Len(Dones(r)) /\ i \notin requests[r].pending
\* the user function has completed
Completed(r) ==
    Len(Dones(r)) >= 1 /\ \A i \in 1..Len(Dones(r)) : Finished(r, i)
CreateFailed(r) == ~requests[r].created

\* ------------------------------------------------------------------------
\* C1.  Every authenticate call whose user function completes ends in
\* exactly one response and in no uncaught exception, whatever the
\* completion (also error unset with result null or undefined).
\* Stated as claimed; the code violates it (checked under SpecPolicy, where
\* the function completes once).
\* ------------------------------------------------------------------------
C1_CompletionGivesOneResponse ==
    \A r \in Reqs :
        Completed(r) => Len(Replies(r)) = 1 /\ ~Uncaught(r)

\* ------------------------------------------------------------------------
\* C2.  However often the user function invokes completion for a request,
\* at most one response is sent for that request.
\* Stated as claimed; the code violates it.
\* ------------------------------------------------------------------------
C2_AtMostOneResponse ==
    \A r \in Reqs : Len(Replies(r)) <= 1

\* ------------------------------------------------------------------------
\* C3.  A completion with a non-null error argument is answered with
\* unauthorized and issues no credentials, whatever the result argument.
\* Stated as claimed; the code violates it for falsy non-null errors.
\* ------------------------------------------------------------------------
C3_NonNullErrorIsUnauthorized ==
    \A r \in Reqs : \A i \in 1..Len(Dones(r)) :
        ~Unset(Dones(r)[i].err) =>
            Kinds(RepliesBy(r, i)) = <<"unauthorized">>

\* ------------------------------------------------------------------------
\* C4.  With the error argument unset, an Error result and a promise-like
\* result that rejects are each answered with unauthorized: no step of
\* policy validation is taken, reply.continue is not called, and once the
\* completion has finished exactly one unauthorized response was sent.
\* ------------------------------------------------------------------------
ErrorOutcome(c) ==
    /\ Unset(c.err)
    /\ \/ c.result.t = "error"
       \/ c.result.t = "promise" /\ c.result.how = "reject"

\* the steps onError takes, and the attachment of the continuations
DenialOps == {"serverlessLog", "reply", "then.catch"}

C4_ErrorResultIsUnauthorized ==
    \A r \in Reqs : \A i \in 1..Len(Dones(r)) :
        ErrorOutcome(Dones(r)[i]) =>
            /\ \A j \in 1..Len(StepsBy(r, i)) :
                 /\ StepsBy(r, i)[j].op \in DenialOps
                 /\ StepsBy(r, i)[j].op = "reply" =>
                        StepsBy(r, i)[j].arg.kind = "unauthorized"
                 /\ StepsBy(r, i)[j].op = "serverlessLog" =>
                        StepsBy(r, i)[j].arg.detail = 
                            (IF Dones(r)[i].result.t = "promise"
                             THEN Dones(r)[i].result.v ELSE Dones(r)[i].result)
            /\ Finished(r, i) => Kinds(RepliesBy(r, i)) = <<"unauthorized">>

C4_Witness ==
    \E r \in Reqs : \E i \in 1..Len(Dones(r)) :
        /\ Unset(Dones(r)[i].err)
        /\ Dones(r)[i].result.t = "promise"
        /\ Dones(r)[i].result.how = "reject"
        /\ Finished(r, i)
        /\ Kinds(RepliesBy(r, i)) = <<"unauthorized">>

\* ------------------------------------------------------------------------
\* C5.  A user function that throws synchronously is answered with
\* unauthorized and its exception does not escape authenticate.
\* Stated as claimed; the code violates it.
\* ------------------------------------------------------------------------
C5_ThrowIsUnauthorized ==
    \A r \in Reqs :
        requests[r].userThrows =>
            /\ Kinds(Replies(r)) = <<"unauthorized">>
            /\ ~Uncaught(r)

\* ------------------------------------------------------------------------
\* C6.  When creating the handler fails, the request gets exactly one
\* internal-error response (never unauthorized), no completion context is
\* created, the user function is not invoked and nothing completes.
\* ------------------------------------------------------------------------
C6_CreateFailureShortCircuits ==
    \A r \in Reqs :
        CreateFailed(r) =>
            /\ Kinds(Replies(r)) = <<"internal">>
            /\ ~Has(r, "createLambdaContext")
            /\ ~Has(r, "handler")
            /\ Dones(r) = <<>>
            /\ Last(Trace(r)).op = "reply"

C6_Witness ==
    \E r \in Reqs :
        /\ CreateFailed(r)
        /\ Kinds(Replies(r)) = <<"internal">>
        /\ \E q \in Reqs : q # r /\ Dispatched(q)

\* ------------------------------------------------------------------------
\* C7.  A failure to create the handler affects only its own request: a
\* later request on the same evaluator whose handler creation succeeds is
\* dispatched, and each of its completions takes exactly the steps the
\* callback takes for that completion alone.
\* ------------------------------------------------------------------------
FailuresBefore(r) == {q \in 1..(r - 1) : CreateFailed(q)}

\* the steps of one completion taken alone
StepsOf(c, i, finished) ==
    callback(c.err, c.result, i)
    \o (IF finished /\ ~Truthy(c.err) /\ IsPromiseLike(c.result)
        THEN settled(c.result, c.err, i) ELSE <<>>)

C7_StartFailureIsLocal ==
    \A r \in Reqs :
        (requests[r].created /\ FailuresBefore(r) # {}) =>
            /\ Dispatched(r)
            /\ Kinds(RepliesBy(r, 0)) = <<>>
            /\ requests[r].userThrows <=> (Uncaught(r) /\ Dones(r) = <<>>)
            /\ \A i \in 1..Len(Dones(r)) :
                 StepsBy(r, i) = StepsOf(Dones(r)[i], i, Finished(r, i))

C7_Witness ==
    \E r \in Reqs :
        /\ requests[r].created
        /\ Cardinality(FailuresBefore(r)) >= 2
        /\ Completed(r)
        /\ Kinds(Replies(r)) = <<"continue">>

\* ------------------------------------------------------------------------
\* C8.  For every policy reaching validation the response is decided by
\* the first failing rule, in the order (1) escaped double quote in the
\* serialized policy: internal error, (2) principalId missing or falsy:
\* forbidden, (3) principalId not a string: internal error, (4) a context
\* value of a type other than string, number, boolean: internal error;
\* otherwise continue.  Exactly one response is sent, so reply.continue is
\* not called when a rule fails.
\* Stated as claimed; the code violates it for the policies null and
\* undefined (see C1).
\* ------------------------------------------------------------------------
\* the value handed to validation by a completion, if any
Validated(c) ==
    IF c.result.t = "promise" THEN c.result.v ELSE c.result

ReachesValidation(r, i) ==
    LET c == Dones(r)[i]
    IN /\ Unset(c.err)
       /\ \/ c.result.t \notin {"promise", "error"}
          \/ c.result.t = "promise" /\ c.result.how = "resolve" /\ Finished(r, i)

PrincipalIdOf(policy) ==
    IF policy.t = "policy" THEN policy.principalId ELSE Undefined
ContextOf(policy) ==
    IF policy.t = "policy" THEN policy.context ELSE Undefined
HasEscapedQuote(policy) ==
    /\ JSONstringify(policy).t = "string"
    /\ \E j \in 1..(Len(JSONstringify(policy).s) - 1) :
          JSONstringify(policy).s[j] = BS /\ JSONstringify(policy).s[j + 1] = DQ
DisallowedValue(v) ==
    ~(v.t \in {"string", "number", "boolean"})

\* the number of the first failing rule, 0 when none fails
FirstFailingRule(policy) ==
    IF HasEscapedQuote(policy) THEN 1
    ELSE IF PrincipalIdOf(policy) \in {Undefined, Null, Str(<<>>), Num(0), Bool(FALSE)} THEN 2
    ELSE IF PrincipalIdOf(policy).t # "string" THEN 3
    ELSE IF /\ ContextOf(policy).t = "map"
            /\ \E j \in 1..Len(ContextOf(policy).kv) :
                  DisallowedValue(ContextOf(policy).kv[j].v) THEN 4
    ELSE 0

KindOfRule(n) == <<"continue", "internal", "forbidden", "internal", "internal">>[n + 1]

\* which rule a response reports, read from the head of its message
RuleOfResponse(resp) ==
    IF resp.kind = "continue" THEN 0
    ELSE CASE resp.message[1].text = "Invalid auth data at position " -> 1
           [] resp.message[1].text = "No principalId set on the Response" -> 2
           [] resp.message[1].text = "principalId is not a string" -> 3
           [] resp.message[1].text = "Not allowed context key ${keyType}" -> 4
           [] OTHER -> 5

C8_FirstFailingRuleDecides ==
    \A r \in Reqs : \A i \in 1..Len(Dones(r)) :
        ReachesValidation(r, i) =>
            LET rule == FirstFailingRule(Validated(Dones(r)[i]))
            IN /\ Kinds(RepliesBy(r, i)) = <<KindOfRule(rule)>>
               /\ RuleOfResponse(RepliesBy(r, i)[1].arg) = rule

\* ------------------------------------------------------------------------
\* C9.  On full validation success the response is continue with
\* credentials whose user is the policy's principalId; the credentials have
\* a context field exactly when the policy has a context, and then it is
\* the policy's context, values and types unchanged.  This holds for a
\* direct result and for a promise-like result that resolves to the policy.
\* ------------------------------------------------------------------------
\* the policy has a context: the property is there and is not null
HasContext(policy) == ~Unset(ContextOf(policy))

ValidPolicy(policy) ==
    /\ policy.t = "policy"
    /\ FirstFailingRule(policy) = 0

C9_SuccessCredentials ==
    \A r \in Reqs : \A i \in 1..Len(Dones(r)) :
        (ReachesValidation(r, i) /\ ValidPolicy(Validated(Dones(r)[i]))) =>
            LET policy == Validated(Dones(r)[i])
                sent == RepliesBy(r, i)
                credentials == sent[1].arg.data.credentials
            IN /\ Len(sent) = 1
               /\ sent[1].op = "reply.continue"
               /\ DOMAIN sent[1].arg.data = {"credentials"}
               /\ credentials.user = policy.principalId
               /\ ("context" \in DOMAIN credentials) <=> HasContext(policy)
               /\ HasContext(policy) => credentials.context = policy.context
               /\ DOMAIN credentials \subseteq {"user", "context"}

C9_Witness ==
    \E r \in Reqs : \E i \in 1..Len(Dones(r)) :
        LET c == Dones(r)[i]
        IN /\ Unset(c.err)
           /\ c.result.t = "promise" /\ c.result.how = "resolve"
           /\ ValidPolicy(c.result.v)
           /\ c.result.v.context.t = "map"
           /\ Len(c.result.v.context.kv) = MaxCtx
           /\ Finished(r, i)
           /\ RepliesBy(r, i)[1].arg.data.credentials.context = c.result.v.context

\* ------------------------------------------------------------------------
\* C10.  When a context value has a disallowed type, the internal-error
\* response names the runtime type of the offending value.
\* Stated as claimed; the code violates it.
\* ------------------------------------------------------------------------
FirstDisallowedType(policy) ==
    LET kv == ContextOf(policy).kv
        j == CHOOSE j \in 1..Len(kv) :
                /\ DisallowedValue(kv[j].v)
                /\ \A k \in 1..(j - 1) : ~DisallowedValue(kv[k].v)
    IN typeof(kv[j].v)

C10_ResponseNamesType ==
    \A r \in Reqs : \A i \in 1..Len(Dones(r)) :
        (ReachesValidation(r, i) /\ FirstFailingRule(Validated(Dones(r)[i])) = 4) =>
            \E j \in 1..Len(RepliesBy(r, i)[1].arg.message) :
                RepliesBy(r, i)[1].arg.message[j] =
                    Lit(FirstDisallowedType(Validated(Dones(r)[i])))

\* ------------------------------------------------------------------------
\* Observations on a construction
\* ------------------------------------------------------------------------
Schemes == 1..Len(schemes)
ConstructionFailed(k) ==
    /\ ~schemes[k].ok
    /\ Last(schemes[k].steps).op = "throw"
\* no request was ever authenticated by scheme k
NeverAuthenticates(k) == \A r \in Reqs : requests[r].scheme # k
Examined(k) ==
    \E j \in 1..Len(schemes[k].steps) : schemes[k].steps[j].op = "identitySource.exec"

\* ------------------------------------------------------------------------
\* C11.  Every identity source that does not match the exact grammar
\* method.request.header.<name>, with literal dots and a single header
\* name, makes construction fail, and no authenticate operation exists.
\* Stated as claimed; the code violates it for a character in place of a dot.
\* ------------------------------------------------------------------------
GrammarPrefix == sMethod \o sDot \o sRequest \o sDot \o sHeader \o sDot

\* characters that end a header name
NameBreaks == {".", ",", " ", "/"}

ExactGrammar(identitySource) ==
    /\ identitySource.t = "string"
    /\ Len(identitySource.s) > Len(GrammarPrefix)
    /\ SubSeq(identitySource.s, 1, Len(GrammarPrefix)) = GrammarPrefix
    /\ \A i \in (Len(GrammarPrefix) + 1)..Len(identitySource.s) :
          identitySource.s[i] \notin NameBreaks

C11_OtherIdentitySourcesFail ==
    \A k \in Schemes :
        ~ExactGrammar(schemes[k].config.identitySource) =>
            ConstructionFailed(k) /\ NeverAuthenticates(k)

\* ------------------------------------------------------------------------
\* C12.  A configuration whose authorizer type is not TOKEN makes
\* construction fail before the identity source is examined; no evaluator
\* is returned and no request is authenticated under it.
\* ------------------------------------------------------------------------
C12_OtherTypesFailFirst ==
    \A k \in Schemes :
        schemes[k].config.type # Str(sTOKEN) =>
            /\ ConstructionFailed(k)
            /\ ~Examined(k)
            /\ schemes[k].config.populates =>
                  Last(schemes[k].steps).arg = ErrorOf(TypeMessage)
            /\ NeverAuthenticates(k)

C12_Witness ==
    \E k \in Schemes :
        /\ schemes[k].config.type = Str(<<"R", "E", "Q", "U", "E", "S", "T">>)
        /\ schemes[k].config.populates
        /\ ~ExactGrammar(schemes[k].config.identitySource)
        /\ ConstructionFailed(k)

\* ------------------------------------------------------------------------
\* C13.  The event's authorizationToken is the value of the request header
\* stored under the lower-cased header name of the identity source,
\* whatever the case used there; when that header is absent the token is
\* undefined and the user function is still invoked with the event.
\* ------------------------------------------------------------------------
\* the header name as written in the identity source
ConfiguredName(k) ==
    SubSeq(schemes[k].config.identitySource.s, Len(GrammarPrefix) + 1,
           Len(schemes[k].config.identitySource.s))

HandlerEvents(r) ==
    {Trace(r)[j].arg : j \in {j \in 1..Len(Trace(r)) : Trace(r)[j].op = "handler"}}

C13_TokenFromLowerCasedHeader ==
    \A r \in Reqs :
        LET name == toLowerCase(ConfiguredName(requests[r].scheme))
            present == name \in DOMAIN requests[r].headers
        IN /\ present =>
                requests[r].event.authorizationToken = requests[r].headers[name]
           /\ ~present =>
                /\ requests[r].event.authorizationToken = Undefined
                /\ requests[r].created => Kinds(Replies(r)) = <<>> \/ Dones(r) # <<>>
           /\ requests[r].created <=> HandlerEvents(r) = {requests[r].event}
           /\ ~requests[r].created => HandlerEvents(r) = {}

C13_Witness ==
    \E r \in Reqs :
        LET name == ConfiguredName(requests[r].scheme)
        IN /\ name # toLowerCase(name)
           /\ toLowerCase(name) \in DOMAIN requests[r].headers
           /\ requests[r].event.authorizationToken = user1
           /\ Dispatched(r)

C13_WitnessAbsent ==
    \E r \in Reqs :
        /\ toLowerCase(ConfiguredName(requests[r].scheme)) \notin DOMAIN requests[r].headers
        /\ Dispatched(r)

\* ------------------------------------------------------------------------
\* C14.  Two requests to the same evaluator with identical headers and
\* identical behaviour of handler creation and of the user function get
\* the same kinds of response and the same presence of an uncaught
\* exception, whatever requests were processed between them.
\* ------------------------------------------------------------------------
SameBehaviour(r, q) ==
    /\ requests[r].scheme = requests[q].scheme
    /\ requests[r].headers = requests[q].headers
    /\ requests[r].created = requests[q].created
    /\ requests[r].userThrows = requests[q].userThrows
    /\ Dones(r) = Dones(q)
    /\ requests[r].pending = requests[q].pending

C14_SameRequestSameKind ==
    \A r \in Reqs : \A q \in Reqs :
        (r < q /\ SameBehaviour(r, q)) =>
            /\ Kinds(Replies(r)) = Kinds(Replies(q))
            /\ Uncaught(r) <=> Uncaught(q)
            /\ Dispatched(r) <=> Dispatched(q)

C14_Witness ==
    \E r \in Reqs : \E q \in Reqs :
        /\ r + 1 < q
        /\ SameBehaviour(r, q)
        /\ Completed(r)
        /\ \E m \in (r + 1)..(q - 1) : CreateFailed(m)

\* ------------------------------------------------------------------------
\* C15.  Every unauthorized response is the same value, carrying only the
\* generic message, whatever the cause of the denial: a callback error, an
\* Error result, a rejection reason or an exception of the validation.
\* ------------------------------------------------------------------------
UnauthorizedReplies(r) ==
    {Trace(r)[j].arg : j \in {j \in 1..Len(Trace(r)) :
                                 /\ Trace(r)[j].op = "reply"
                                 /\ Trace(r)[j].arg.kind = "unauthorized"}}

\* the error values logged by the denials of request r
DenialCauses(r) ==
    {Trace(r)[j].arg.detail : j \in {j \in 1..(Len(Trace(r)) - 1) :
                                 /\ Trace(r)[j].op = "serverlessLog"
                                 /\ Trace(r)[j + 1].op = "reply"
                                 /\ Trace(r)[j + 1].arg.kind = "unauthorized"}}

C15_UnauthorizedIsGeneric ==
    \A r \in Reqs :
        UnauthorizedReplies(r) \subseteq {BoomUnauthorized(<<Lit("Unauthorized")>>)}

C15_Witness ==
    \E r \in Reqs :
        /\ UnauthorizedReplies(r) # {}
        /\ DenialCauses(r) = {Err("E2")}
        /\ Dones(r)[1].result = Promise("reject", Err("E2"))

\* ------------------------------------------------------------------------
\* C16.  In every authenticate call the environment reset comes strictly
\* before the call of the user function: a request whose handler was called
\* has had its reset, with the evaluator's declared variables, and between
\* the reset and the call lie only the creation of the handler and of the
\* lambda context, all steps of authenticate itself.
\* ------------------------------------------------------------------------
PositionsOf(r, op) == {j \in 1..Len(Trace(r)) : Trace(r)[j].op = op}

BetweenResetAndDispatch == {"createHandler", "createLambdaContext"}

C16_ResetBeforeDispatch ==
    \A r \in Reqs : \A h \in PositionsOf(r, "handler") :
        \E j \in PositionsOf(r, "resetEnvVariables") :
            /\ j < h
            /\ Trace(r)[j].arg.newEnvVars = newEnvVars(requests[r].scheme)
            /\ \A k \in (j + 1)..(h - 1) :
                  /\ Trace(r)[k].op \in BetweenResetAndDispatch
                  /\ Trace(r)[k].by = 0
            /\ \A k \in 1..h : Trace(r)[k].by = 0

C16_Witness ==
    \E r \in Reqs :
        /\ r > 1
        /\ Dispatched(r)
        /\ Dones(r) # <<>>

\* ------------------------------------------------------------------------
\* C17.  The previous set handed to the environment reset is the set most
\* recently applied to the process environment by any evaluator of the
\* process: undefined for the first request, and after that the variables
\* applied for the request before.
\* Stated as claimed; the code violates it for two evaluators.
\* ------------------------------------------------------------------------
ResetArgs(r) ==
    {Trace(r)[j].arg : j \in PositionsOf(r, "resetEnvVariables")}

\* the set applied last before request r
LastApplied(r) ==
    IF r = 1 THEN Undefined
    ELSE [names |-> newEnvVars(requests[r - 1].scheme)]

C17_PreviousSetIsProcessWide ==
    \A r \in Reqs :
        \A a \in ResetArgs(r) : a.oldEnvVars = LastApplied(r)

\* ------------------------------------------------------------------------
\* C18.  Every response other than continue is preceded, in its request, by
\* a log message that names the authorizer function; and when the logging
\* collaborator throws, the response of that authenticate call or of that
\* completion is sent all the same.
\* Stated as claimed; the code violates the second half.
\* ------------------------------------------------------------------------
NamesFunction(s) ==
    /\ s.op = "serverlessLog"
    /\ \E j \in 1..Len(s.arg.message) : s.arg.message[j] = Lit(authFunName)

C18_LogPrecedesResponse ==
    \A r \in Reqs : \A j \in PositionsOf(r, "reply") :
        \E k \in 1..(j - 1) : NamesFunction(Trace(r)[k])

\* positions where an exception of the logger left the code
LoggerThrows(r) ==
    {j \in PositionsOf(r, "throw") : Trace(r)[j].arg = LoggerError}

C18_LoggerNeverBlocksResponse ==
    \A r \in Reqs : \A j \in LoggerThrows(r) :
        \E k \in (j + 1)..Len(Trace(r)) :
            /\ Trace(r)[k].by = Trace(r)[j].by
            /\ IsReply(Trace(r)[k]) \/ Trace(r)[k].op = "handler"

C18_RejectionsLogAndRespond ==
    C18_LogPrecedesResponse /\ C18_LoggerNeverBlocksResponse

\* ------------------------------------------------------------------------
\* C19.  With the error argument unset, a completion with a promise-like
\* result that resolves to v ends as the completion with v itself does:
\* the same kinds of response, the same credentials on success, the same
\* presence of an uncaught exception.
\* Stated as claimed; the code violates it for null, undefined and Error.
\* ------------------------------------------------------------------------
ResolvesTo(c) == c.result.t = "promise" /\ c.result.how = "resolve"

\* the steps of the completion (err, v) delivered directly
Direct(c, i) == callback(c.err, c.result.v, i)

C19_DeliveryPathIsIrrelevant ==
    \A r \in Reqs : \A i \in 1..Len(Dones(r)) :
        (Unset(Dones(r)[i].err) /\ ResolvesTo(Dones(r)[i]) /\ Finished(r, i)) =>
            /\ SelectSeq(StepsBy(r, i), IsReply) = SelectSeq(Direct(Dones(r)[i], i), IsReply)
            /\ Throws(StepsBy(r, i)) <=> Throws(Direct(Dones(r)[i], i))

\* ------------------------------------------------------------------------
\* C20.  With several requests in flight on one evaluator, whatever the
\* interleaving of their completions and settlements, the steps recorded
\* for a request, its responses among them, are those of authenticate for
\* that request followed by those its own completions take alone.
\* ------------------------------------------------------------------------
C20_ResponsesAreOwn ==
    \A r \in Reqs :
        /\ \A j \in 1..Len(Trace(r)) : Trace(r)[j].by \in 0..Len(Dones(r))
        /\ \A i \in 1..Len(Dones(r)) :
              StepsBy(r, i) = StepsOf(Dones(r)[i], i, Finished(r, i))
        /\ Kinds(RepliesBy(r, 0)) = IF CreateFailed(r) THEN <<"internal">> ELSE <<>>

C20_Witness ==
    \E r \in Reqs : \E q \in Reqs :
        /\ r < q
        /\ requests[r].pending # {}
        /\ Replies(r) = <<>>
        /\ Completed(q)
        /\ Kinds(Replies(q)) = <<"continue">>

====
